---- MODULE Spec2Model ----
(***************************************************************************)
(* Model of pp.py: the X3 production-efficiency report extractor           *)
(* (extract_numeric, find_column_indices, extract_employee_data) and the   *)
(* file processing loop of the Streamlit script that feeds it.             *)
(*                                                                         *)
(* Text is a sequence of tokens.  Digits, the blank and punctuation are    *)
(* one-character tokens; a word ("Matricule", "TOTAL", "Saisie", ...) is   *)
(* one token standing for its letters, so that \d, \s, literal words and   *)
(* `.` of the regular expressions act on tokens as they act on characters. *)
(* Tokens are written without accents ("Alloue" is the word Alloué).       *)
(* A number is an integer count of hundredths (37.5 is 3750).              *)
(* An optional value (None or a value) is a sequence of length 0 or 1.     *)
(***************************************************************************)
EXTENDS Integers, Sequences, FiniteSets, TLC

\* ------------------------------------------------------------------ bounds
MaxRows == 3
MaxFiles == 2

\* -------------------------------------------------------------------- text
Digits == <<"0", "1", "2", "3", "4", "5", "6", "7", "8", "9">>

IsDigit(c) == \E i \in 1..10 : Digits[i] = c

IsSpace(c) == c = " "

DigitVal(c) == (CHOOSE i \in 1..10 : Digits[i] = c) - 1

\* s[i..] (1-based), empty when i is past the end
From(s, i) == SubSeq(s, i, Len(s))

\* number of leading tokens of s[i..] that are digits / blanks
RECURSIVE DigitRun(_, _)
DigitRun(s, i) == IF i <= Len(s) /\ IsDigit(s[i]) THEN 1 + DigitRun(s, i + 1) ELSE 0

RECURSIVE SpaceRun(_, _)
SpaceRun(s, i) == IF i <= Len(s) /\ IsSpace(s[i]) THEN 1 + SpaceRun(s, i + 1) ELSE 0

\* str.strip(): leading and trailing whitespace removed
RECURSIVE RStrip(_)
RStrip(s) == IF Len(s) > 0 /\ IsSpace(s[Len(s)]) THEN RStrip(SubSeq(s, 1, Len(s) - 1)) ELSE s

Strip(s) == RStrip(From(s, 1 + SpaceRun(s, 1)))

\* p occurs in s at position i
OccursAt(s, p, i) == i + Len(p) - 1 <= Len(s) /\ SubSeq(s, i, i + Len(p) - 1) = p

\* Python's `p in s` on strings
Contains(s, p) == \E i \in 1..(Len(s) + 1) : OccursAt(s, p, i)

HasSpace(s) == \E i \in 1..Len(s) : IsSpace(s[i])

\* ------------------------------------------------------------------- cells
NaN == [kind |-> "nan", val |-> 0, s |-> <<>>]

Num(v) == [kind |-> "num", val |-> v, s |-> <<>>]

Txt(t) == [kind |-> "txt", val |-> 0, s |-> t]

\* pd.isna / pd.notna on a scalar cell
IsNa(cell) == cell.kind = "nan"

\* decimal digits of a natural number
RECURSIVE NatStr(_)
NatStr(n) == IF n < 10 THEN <<Digits[n + 1]>> ELSE Append(NatStr(n \div 10), Digits[(n % 10) + 1])

Abs(v) == IF v < 0 THEN 0 - v ELSE v

\* str(float): sign, integer part, ".", fraction without trailing zeros
\* (at least one fraction digit): 3750 -> "37.5", 4000 -> "40.0", 94 -> "0.94"
FloatStr(v) ==
    LET a == Abs(v)
        f == a % 100
        frac == IF f % 10 = 0 THEN <<Digits[(f \div 10) + 1]>>
                ELSE <<Digits[(f \div 10) + 1], Digits[(f % 10) + 1]>>
    IN (IF v < 0 THEN <<"-">> ELSE <<>>) \o NatStr(a \div 100) \o <<".">> \o frac

\* str(cell) of a non-NaN cell
Str(cell) == IF cell.kind = "num" THEN FloatStr(cell.val) ELSE cell.s

\* value of a run of n digit tokens starting at s[i]
RECURSIVE NatVal(_, _, _)
NatVal(s, i, n) == IF n = 0 THEN 0 ELSE 10 * NatVal(s, i, n - 1) + DigitVal(s[i + n - 1])

\* float(str): surrounding whitespace ignored, optional sign, digits with an
\* optional fraction of at most two digits; anything else raises ValueError (<<>>)
ParseFloat(t) ==
    LET u == Strip(t)
        sg == IF Len(u) > 0 /\ u[1] \in {"-", "+"} THEN 1 ELSE 0
        ip == DigitRun(u, sg + 1)
        dot == IF sg + ip + 1 <= Len(u) /\ u[sg + ip + 1] = "." THEN 1 ELSE 0
        fp == IF dot = 1 THEN DigitRun(u, sg + ip + 2) ELSE 0
        mag == 100 * NatVal(u, sg + 1, ip)
               + (IF fp = 1 THEN 10 * NatVal(u, sg + ip + 2, 1) ELSE NatVal(u, sg + ip + 2, fp))
    IN IF ip + fp >= 1 /\ fp <= 2 /\ sg + ip + dot + fp = Len(u)
       THEN <<IF sg = 1 /\ u[1] = "-" THEN 0 - mag ELSE mag>>
       ELSE <<>>

\* float(value) inside try/except: <<>> when it raises
ToFloat(cell) == IF cell.kind = "num" THEN <<cell.val>> ELSE ParseFloat(cell.s)

\* ' '.join(map(str, row.dropna().values))
RECURSIVE RowStr(_)
RowStr(row) ==
    IF Len(row) = 0 THEN <<>>
    ELSE LET rest == RowStr(Tail(row))
         IN IF IsNa(Head(row)) THEN rest
            ELSE IF \A i \in 2..Len(row) : IsNa(row[i]) THEN Str(Head(row))
            ELSE Str(Head(row)) \o <<" ">> \o rest

\* ------------------------------------------------- the regular expressions
Min(S) == CHOOSE x \in S : \A y \in S : x <= y

Max(S) == CHOOSE x \in S : \A y \in S : x >= y

\* r'Matricule\s*:\s*(\d+\s*\d+)\s*-\s*(.+)' matched at position i; <<>> or the
\* two groups.  Greedy matching with backtracking leaves one candidate for
\* group 1: the digit run, the blanks and the second digit run when a second
\* run follows the blanks, else the digit run alone when it has two digits or
\* more.  Group 2 is the rest of the text after the blanks that follow "-";
\* when nothing is left there, .+ takes the last of those blanks back.
HeaderAt(s, i) ==
    LET p1 == i + 1 + SpaceRun(s, i + 1)
        p2 == p1 + 1 + SpaceRun(s, p1 + 1)
        a == DigitRun(s, p2)
        s1 == SpaceRun(s, p2 + a)
        b == DigitRun(s, p2 + a + s1)
        glen == IF b >= 1 THEN a + s1 + b ELSE a
        q == IF b >= 1 THEN p2 + glen + SpaceRun(s, p2 + glen) ELSE p2 + a + s1
        s3 == SpaceRun(s, q + 1)
        r == q + 1 + s3
    IN IF /\ i <= Len(s) /\ s[i] = "Matricule"
          /\ p1 <= Len(s) /\ s[p1] = ":"
          /\ a >= 1 /\ (b >= 1 \/ a >= 2)
          /\ q <= Len(s) /\ s[q] = "-"
          /\ (r <= Len(s) \/ s3 >= 1)
       THEN <<[g1 |-> SubSeq(s, p2, p2 + glen - 1),
               g2 |-> IF r <= Len(s) THEN From(s, r) ELSE <<" ">>]>>
       ELSE <<>>

\* re.search: the match at the leftmost position that has one
matricule_match(row_str) ==
    LET I == {i \in 1..Len(row_str) : HeaderAt(row_str, i) # <<>>}
    IN IF I = {} THEN <<>> ELSE HeaderAt(row_str, Min(I))

\* r'(\d{4}/\d{2})' matched at position i
PeriodAt(s, i) ==
    /\ i + 6 <= Len(s)
    /\ \A k \in 0..3 : IsDigit(s[i + k])
    /\ s[i + 4] = "/"
    /\ IsDigit(s[i + 5]) /\ IsDigit(s[i + 6])

period_match(row_str) ==
    LET I == {i \in 1..Len(row_str) : PeriodAt(row_str, i)}
    IN IF I = {} THEN <<>> ELSE <<SubSeq(row_str, Min(I), Min(I) + 6)>>

\* r'TOTAL MATRICULE\s*:\s*(\d+\s*\d+)' matched at position i
TotalAt(s, i) ==
    LET p1 == i + 3 + SpaceRun(s, i + 3)
        p2 == p1 + 1 + SpaceRun(s, p1 + 1)
        a == DigitRun(s, p2)
        b == DigitRun(s, p2 + a + SpaceRun(s, p2 + a))
    IN /\ OccursAt(s, <<"TOTAL", " ", "MATRICULE">>, i)
       /\ p1 <= Len(s) /\ s[p1] = ":"
       /\ a >= 1 /\ (b >= 1 \/ a >= 2)

total_match(row_str) == \E i \in 1..Len(row_str) : TotalAt(row_str, i)

\* total_match.group(1): the digits (with inner blanks) after "TOTAL MATRICULE :"
\* of the leftmost match; the code never reads it
total_id(row_str) ==
    LET i == Min({k \in 1..Len(row_str) : TotalAt(row_str, k)})
        p1 == i + 3 + SpaceRun(row_str, i + 3)
        p2 == p1 + 1 + SpaceRun(row_str, p1 + 1)
        a == DigitRun(row_str, p2)
        s1 == SpaceRun(row_str, p2 + a)
        b == DigitRun(row_str, p2 + a + s1)
    IN SubSeq(row_str, p2, p2 + (IF b >= 1 THEN a + s1 + b ELSE a) - 1)

\* --------------------------------------------------------- extract_numeric
\* extract_numeric with a blank cell read as zero
extract_numeric_blank_zero(row, col_idx) ==
    IF col_idx = <<>> \/ col_idx[1] >= Len(row) THEN <<>>
    ELSE LET value == row[col_idx[1] + 1]
         IN IF IsNa(value) THEN <<0>> ELSE ToFloat(value)

\* row[col_idx] as a float, or None (<<>>); col_idx is an optional index
extract_numeric(row, col_idx) ==
    IF col_idx = <<>> \/ col_idx[1] >= Len(row) THEN <<>>
    ELSE LET value == row[col_idx[1] + 1]
         IN IF IsNa(value) THEN <<>> ELSE ToFloat(value)

\* ----------------------------------------------------- find_column_indices
kSaisie == "Tps Saisie"

kAlloue == "Tps Alloue"

kEcart == "Ecart (Alloue-Realise)"

kEffic == "Efficience Tech."

MetricKeys == {kSaisie, kAlloue, kEcart, kEffic}

tTpsSaisie == <<"Tps", " ", "Saisie">>

tTpsAlloue == <<"Tps", " ", "Alloue">>

EmptyMap == [k \in {} |-> 0]

Put(m, k, v) == [x \in DOMAIN m \cup {k} |-> IF x = k THEN v ELSE m[x]]

\* dict.get: an optional value
Get(m, k) == IF k \in DOMAIN m THEN <<m[k]>> ELSE <<>>

\* the chain with the 'Alloué' test ahead of the 'Ecart' test
LabelCellAlloueFirst(col_map, cell, col_idx) ==
    IF IsNa(cell) THEN col_map
    ELSE LET cell_str == Strip(Str(cell))
         IN IF Contains(cell_str, <<"Alloue">>) THEN Put(col_map, kAlloue, col_idx)
            ELSE IF Contains(cell_str, <<"Ecart">>) THEN Put(col_map, kEcart, col_idx)
            ELSE IF Contains(cell_str, tTpsSaisie) THEN Put(col_map, kSaisie, col_idx)
            ELSE IF Contains(cell_str, <<"Efficience">>) THEN Put(col_map, kEffic, col_idx + 1)
            ELSE col_map

\* the if/elif chain on one cell of the header row (col_idx is 0-based)
LabelCell(col_map, cell, col_idx) ==
    IF IsNa(cell) THEN col_map
    ELSE LET cell_str == Strip(Str(cell))
         IN IF Contains(cell_str, <<"Ecart">>) THEN Put(col_map, kEcart, col_idx)
            ELSE IF Contains(cell_str, tTpsSaisie) THEN Put(col_map, kSaisie, col_idx)
            ELSE IF Contains(cell_str, <<"Alloue">>) THEN Put(col_map, kAlloue, col_idx)
            ELSE IF Contains(cell_str, <<"Efficience">>) THEN Put(col_map, kEffic, col_idx + 1)
            ELSE col_map

\* col_map after the first n cells of the row
RECURSIVE LabelMap(_, _)
LabelMap(row, n) == IF n = 0 THEN EmptyMap ELSE LabelCell(LabelMap(row, n - 1), row[n], n - 1)

\* the row qualifies as the label header row and yields a non-empty col_map
IsLabelRow(row) ==
    /\ Contains(RowStr(row), tTpsSaisie)
    /\ Contains(RowStr(row), tTpsAlloue)
    /\ DOMAIN LabelMap(row, Len(row)) # {}

DefaultMap == [k \in MetricKeys |->
    IF k = kSaisie THEN 13 ELSE IF k = kAlloue THEN 16 ELSE IF k = kEcart THEN 18 ELSE 25]

\* the detector filling the labels the header row lacks from the fixed map
find_column_indices_filled(data) ==
    LET I == {i \in 1..Len(data.rows) : IsLabelRow(data.rows[i])}
        m == LabelMap(data.rows[Min(I)], Len(data.rows[Min(I)]))
    IN IF I # {} THEN [k \in MetricKeys |-> IF k \in DOMAIN m THEN m[k] ELSE DefaultMap[k]]
       ELSE DefaultMap

find_column_indices(data) ==
    LET I == {i \in 1..Len(data.rows) : IsLabelRow(data.rows[i])}
    IN IF I # {} THEN LabelMap(data.rows[Min(I)], Len(data.rows[Min(I)])) ELSE DefaultMap

\* ---------------------------------------- extract_employee_data, row rules
\* parse state: st.emp is current_employee ({} is <<>>), st.per is current_period
NoState == [emp |-> <<>>, per |-> <<>>]

\* the header rule without `current_period = None`
HeaderRuleKeepsPeriod(st, row_str) ==
    LET m == matricule_match(row_str)
    IN IF m # <<>>
       THEN [emp |-> <<[Matricule |-> Strip(m[1].g1), Employee_Name |-> Strip(m[1].g2)]>>,
             per |-> st.per]
       ELSE st

\* the header rule leaving an in-flight context in place
HeaderRuleKeepsFirst(st, row_str) ==
    LET m == matricule_match(row_str)
    IN IF m # <<>>
       THEN [emp |-> IF st.emp # <<>> THEN st.emp
                     ELSE <<[Matricule |-> Strip(m[1].g1), Employee_Name |-> Strip(m[1].g2)]>>,
             per |-> <<>>]
       ELSE st

HeaderRule(st, row_str) ==
    LET m == matricule_match(row_str)
    IN IF m # <<>>
       THEN [emp |-> <<[Matricule |-> Strip(m[1].g1), Employee_Name |-> Strip(m[1].g2)]>>,
             per |-> <<>>]
       ELSE st

\* the period rule keeping the first period of a section
PeriodRuleKeepsFirst(st, row_str) ==
    IF period_match(row_str) # <<>> /\ ~Contains(row_str, <<"TOTAL">>) /\ st.per = <<>>
    THEN [st EXCEPT !.per = period_match(row_str)]
    ELSE st

PeriodRule(st, row_str) ==
    IF period_match(row_str) # <<>> /\ ~Contains(row_str, <<"TOTAL">>)
    THEN [st EXCEPT !.per = period_match(row_str)]
    ELSE st

\* the totals rule without `and current_employee`
TotalFiresUnguarded(st, row_str) == total_match(row_str)

\* the totals rule closing a section only when the totals row names its matricule
TotalFiresSameId(st, row_str) ==
    /\ total_match(row_str)
    /\ st.emp # <<>>
    /\ Strip(total_id(row_str)) = st.emp[1].Matricule

TotalFires(st, row_str) == total_match(row_str) /\ st.emp # <<>>

NA == <<"N", "/", "A">>

\* the dict built at a totals row ({**current_employee, 'Period': ..., ...})
employee_data(st, row, column_map) ==
    [Matricule |-> IF st.emp # <<>> THEN st.emp[1].Matricule ELSE <<>>,
     Employee_Name |-> IF st.emp # <<>> THEN st.emp[1].Employee_Name ELSE <<>>,
     Period |-> IF st.per # <<>> /\ st.per[1] # <<>> THEN st.per[1] ELSE NA,
     Tps_Saisie |-> extract_numeric(row, Get(column_map, kSaisie)),
     Tps_Alloue |-> extract_numeric(row, Get(column_map, kAlloue)),
     Ecart |-> extract_numeric(row, Get(column_map, kEcart)),
     Efficience_Tech |-> extract_numeric(row, Get(column_map, kEffic))]

\* the totals rule without `current_employee = {}`
AfterTotalKeeps(st) == st

\* parse state after the totals rule has fired
AfterTotal(st) == [st EXCEPT !.emp = <<>>]

\* ------------------------------------------------------- the rows in scope
T(ts) == Txt(ts)

tHdr == <<"Matricule", " ", ":", " ", "7", " ", "0", "0", "1", " ", "-", " ",
          "SADIK", " ", "Amina", " ">>

tHdrPer == <<"Matricule", ":", " ", "1", "2", " ", "-", "DUPONT", " ",
             "Periode", " ", "2", "0", "2", "5", "/", "1", "2">>

tHdr34 == <<"Matricule", " ", ":", " ", "3", "4", " ", "-", " ", "LEROY">>

tPer11 == <<"2", "0", "2", "5", "/", "1", "1">>

tPer10 == <<"2", "0", "2", "5", "/", "1", "0">>

tTot7 == <<"TOTAL", " ", "MATRICULE", " ", ":", " ", "7", " ", "0", "0", "1">>

tTot12 == <<"TOTAL", " ", "MATRICULE", " ", ":", " ", "1", "2">>

tTot34 == <<"TOTAL", " ", "MATRICULE", ":", "3", "4">>

tEcart == <<"Ecart", " ", "(", "Alloue", "-", "Realise", ")">>

tEffic == <<"Efficience", " ", "Tech", ".">>

\* compact layout: text in column 0, the metrics in columns 1, 2, 3 and 5
rHdr == <<T(tHdr), NaN, NaN, NaN, NaN, NaN>>

rHdrPer == <<T(tHdrPer), NaN, NaN, NaN, NaN, NaN>>

rPer == <<T(tPer11), NaN, NaN, NaN, NaN, NaN>>

rPerMid == <<T(<<"Periode">>), T(tPer10), NaN, NaN, NaN, NaN>>

rTot == <<T(tTot7), Num(3750), Num(4000), Num(0 - 250), NaN, Num(94)>>

rTotBad == <<T(tTot12), NaN, T(<<"a", "b", "c">>), T(<<" ", "4", "0", ".", "0", "0", " ">>), NaN, T(<<"-">>)>>

rBoth == <<T(tHdr34), T(tTot34), Num(800), Num(100), NaN, Num(100)>>

rLabels == <<NaN, T(tTpsSaisie), T(tTpsAlloue), T(tEcart), T(tEffic), NaN>>

rLabelsPart == <<NaN, T(tTpsSaisie), T(tTpsAlloue), NaN, NaN, NaN>>

rNoise == <<T(<<"Atelier", " ", "1">>), NaN, NaN, NaN, NaN, NaN>>

CompactRows == {rHdr, rHdrPer, rPer, rPerMid, rTot, rTotBad, rBoth, rLabels, rLabelsPart, rNoise}

\* a compact row padded with empty columns on the right to width w
PadTo(row, w) == [i \in 1..w |-> IF i <= Len(row) THEN row[i] ELSE NaN]

MediumRows == {PadTo(r, 12) : r \in {rHdr, rTot}}

\* expanded layout: text in column 0, the metrics in columns 13, 16, 18 and 25
Expand(row) ==
    [i \in 1..26 |-> IF i = 1 THEN row[1]
                     ELSE IF i = 14 THEN row[2]
                     ELSE IF i = 17 THEN row[3]
                     ELSE IF i = 19 THEN row[4]
                     ELSE IF i = 26 THEN row[6]
                     ELSE NaN]

ExpandedRows == {Expand(r) : r \in {rHdr, rPer, rTot, rTotBad}}

SeqsUpTo(S, n) == UNION {[1..k -> S] : k \in 0..n}

Grid(w, rows) == [width |-> w, rows |-> rows]

NoGrid == Grid(0, <<>>)

\* the grids pd.read_excel(header=None) can return: rectangular, any row a data
\* row; an empty sheet gives the grid of no rows and no columns
Grids ==
    {NoGrid}
    \cup {Grid(6, rs) : rs \in (SeqsUpTo(CompactRows, MaxRows) \ {<<>>})}
    \cup {Grid(12, rs) : rs \in (SeqsUpTo(MediumRows, MaxRows) \ {<<>>})}
    \cup {Grid(26, rs) : rs \in (SeqsUpTo(ExpandedRows, MaxRows) \ {<<>>})}

\* an uploaded file: its name and its bytes, which are a workbook holding a
\* grid, or are not a workbook at all
File(name, ok, grid) == [name |-> name, ok |-> ok, grid |-> grid]

Names == {"a.xls", "b.xls"}

BatchGrids == {Grid(6, <<rLabels, rHdr, rTot>>), Grid(26, <<Expand(rHdr), Expand(rTotBad)>>), NoGrid}

\* the uploads in scope: one file holding any grid, or up to MaxFiles files
\* holding the batch grids or unreadable bytes
Uploads ==
    {<<File("a.xls", TRUE, g)>> : g \in Grids}
    \cup (SeqsUpTo({File(n, TRUE, g) : n \in Names, g \in BatchGrids}
                   \cup {File(n, FALSE, NoGrid) : n \in Names}, MaxFiles) \ {<<>>})

\* ------------------------------------------------------------------- state
VARIABLES
    uploaded_files,   \* st.file_uploader: the batch, in upload order
    pc,               \* position of the script: save, read, detect, scan, concat, done, raised
    file_idx,         \* index of the uploaded file the loop is at
    temp_files,       \* the temp directory: file name -> bytes written there
    data,             \* extract_employee_data: the grid read from temp_path
    column_map,       \* extract_employee_data: the result of find_column_indices
    row_idx,          \* extract_employee_data: the row data.iterrows() is at
    state,            \* extract_employee_data: current_employee and current_period
    employees,        \* extract_employee_data: the records appended so far
    emitted_at,       \* history: the row index at which each record was appended
    parsed,           \* history: what extract_employee_data returned for each file
    all_data,         \* the frames tagged with Source_File, one per file
    combined_df       \* pd.concat(all_data)

vars == <<uploaded_files, pc, file_idx, temp_files, data, column_map, row_idx, state,
          employees, emitted_at, parsed, all_data, combined_df>>

parser == <<data, column_map, row_idx, state, employees, emitted_at>>

Init ==
    /\ uploaded_files \in Uploads
    /\ pc = "save"
    /\ file_idx = 1
    /\ temp_files = EmptyMap
    /\ data = NoGrid
    /\ column_map = EmptyMap
    /\ row_idx = 1
    /\ state = NoState
    /\ employees = <<>>
    /\ emitted_at = <<>>
    /\ parsed = <<>>
    /\ all_data = <<>>
    /\ combined_df = <<>>

uploaded_file == uploaded_files[file_idx]

\* temp_path = Path(temp_dir) / uploaded_file.name; f.write(uploaded_file.getbuffer())
SaveUpload ==
    /\ pc = "save"
    /\ temp_files' = Put(temp_files, uploaded_file.name, [ok |-> uploaded_file.ok, grid |-> uploaded_file.grid])
    /\ pc' = "read"
    /\ UNCHANGED <<uploaded_files, file_idx, parser, parsed, all_data, combined_df>>

\* data = pd.read_excel(file_path, header=None), the bytes being a workbook
ReadExcel ==
    /\ pc = "read"
    /\ temp_files[uploaded_file.name].ok
    /\ data' = temp_files[uploaded_file.name].grid
    /\ pc' = "detect"
    /\ UNCHANGED <<uploaded_files, file_idx, temp_files, column_map, row_idx, state,
                   employees, emitted_at, parsed, all_data, combined_df>>

\* pd.read_excel raises; nothing catches it, the script run ends there
ReadExcelRaises ==
    /\ pc = "read"
    /\ ~temp_files[uploaded_file.name].ok
    /\ pc' = "raised"
    /\ UNCHANGED <<uploaded_files, file_idx, temp_files, parser, parsed, all_data, combined_df>>

\* the prologue with employees, current_employee and current_period kept from
\* the call before (module-level state instead of locals)
FindColumnsNoReset ==
    /\ pc = "detect"
    /\ column_map' = find_column_indices(data)
    /\ row_idx' = 1
    /\ pc' = "scan"
    /\ UNCHANGED <<uploaded_files, file_idx, temp_files, data, parsed, all_data, combined_df,
                   employees, emitted_at, state>>

\* column_map = find_column_indices(data); employees = []; current_employee = {};
\* current_period = None
FindColumns ==
    /\ pc = "detect"
    /\ column_map' = find_column_indices(data)
    /\ employees' = <<>>
    /\ emitted_at' = <<>>
    /\ state' = NoState
    /\ row_idx' = 1
    /\ pc' = "scan"
    /\ UNCHANGED <<uploaded_files, file_idx, temp_files, data, parsed, all_data, combined_df>>

\* the parse state when the totals rule is evaluated on a row
BeforeTotal(st, row_str) == PeriodRule(HeaderRule(st, row_str), row_str)

\* one iteration of `for index, row in data.iterrows()`
ScanRow ==
    /\ pc = "scan"
    /\ row_idx <= Len(data.rows)
    /\ LET row == data.rows[row_idx]
           row_str == RowStr(row)
           st == BeforeTotal(state, row_str)
       IN IF TotalFires(st, row_str)
          THEN /\ employees' = Append(employees, employee_data(st, row, column_map))
               /\ emitted_at' = Append(emitted_at, row_idx)
               /\ state' = AfterTotal(st)
          ELSE /\ state' = st
               /\ UNCHANGED <<employees, emitted_at>>
    /\ row_idx' = row_idx + 1
    /\ UNCHANGED <<uploaded_files, pc, file_idx, temp_files, data, column_map, parsed,
                   all_data, combined_df>>

\* every frame tagged with the name of the last uploaded file
TaggedLastName(df, name) ==
    [k \in 1..Len(df) |->
        [Matricule |-> df[k].Matricule, Employee_Name |-> df[k].Employee_Name,
         Period |-> df[k].Period, Tps_Saisie |-> df[k].Tps_Saisie,
         Tps_Alloue |-> df[k].Tps_Alloue, Ecart |-> df[k].Ecart,
         Efficience_Tech |-> df[k].Efficience_Tech,
         Source_File |-> uploaded_files[Len(uploaded_files)].name]]

\* df['Source_File'] = uploaded_file.name
Tagged(df, name) ==
    [k \in 1..Len(df) |->
        [Matricule |-> df[k].Matricule, Employee_Name |-> df[k].Employee_Name,
         Period |-> df[k].Period, Tps_Saisie |-> df[k].Tps_Saisie,
         Tps_Alloue |-> df[k].Tps_Alloue, Ecart |-> df[k].Ecart,
         Efficience_Tech |-> df[k].Efficience_Tech, Source_File |-> name]]

\* return pd.DataFrame(employees); the frame is tagged and appended to all_data;
\* the loop goes to the next uploaded file, or ends
ReturnFrame ==
    /\ pc = "scan"
    /\ row_idx > Len(data.rows)
    /\ parsed' = Append(parsed, employees)
    /\ all_data' = Append(all_data, Tagged(employees, uploaded_file.name))
    /\ IF file_idx < Len(uploaded_files)
       THEN file_idx' = file_idx + 1 /\ pc' = "save"
       ELSE file_idx' = file_idx /\ pc' = "concat"
    /\ UNCHANGED <<uploaded_files, temp_files, parser, combined_df>>

\* pd.concat(frames, ignore_index=True)
RECURSIVE Concat(_)
Concat(frames) == IF frames = <<>> THEN <<>> ELSE Head(frames) \o Concat(Tail(frames))

Combine ==
    /\ pc = "concat"
    /\ combined_df' = Concat(all_data)
    /\ pc' = "done"
    /\ UNCHANGED <<uploaded_files, file_idx, temp_files, parser, parsed, all_data>>

Next ==
    \/ SaveUpload
    \/ ReadExcel
    \/ ReadExcelRaises
    \/ FindColumns
    \/ ScanRow
    \/ ReturnFrame
    \/ Combine

Spec == Init /\ [][Next]_vars

\* ------------------------------------------------- vocabulary of the claims
Range(f) == {f[i] : i \in DOMAIN f}

\* the parser is inside its loop over the rows of `data` (or just past its end)
Scanning == pc = "scan"

Scanned == 1..(row_idx - 1)

RowText(i) == RowStr(data.rows[i])

\* row i matches the employee-header pattern / the totals pattern / the period rule
IsHeader(i) == matricule_match(RowText(i)) # <<>>

IsTotal(i) == total_match(RowText(i))

IsPeriod(i) == period_match(RowText(i)) # <<>> /\ ~Contains(RowText(i), <<"TOTAL">>)

\* an EmployeeContext is active when the totals rule is evaluated on row t:
\* row t is a header row, or the context was active on the row before and that
\* row was not a totals row (which would have consumed it)
RECURSIVE Active(_)
Active(t) == IsHeader(t) \/ (t > 1 /\ Active(t - 1) /\ ~IsTotal(t - 1))

Metric(rec, key) ==
    CASE key = kSaisie -> rec.Tps_Saisie
      [] key = kAlloue -> rec.Tps_Alloue
      [] key = kEcart -> rec.Ecart
      [] key = kEffic -> rec.Efficience_Tech

\* the most recent header row at or before row t (0 when there is none)
LastHeader(t) == IF \E h \in 1..t : IsHeader(h) THEN Max({h \in 1..t : IsHeader(h)}) ELSE 0

\* C1: on every header match the id put in the context, and in any record
\* emitted from it, holds no whitespace, and the name has no leading or
\* trailing whitespace.
C1_IdWithoutWhitespace ==
    Scanning =>
        /\ state.emp # <<>> =>
              /\ ~HasSpace(state.emp[1].Matricule)
              /\ Strip(state.emp[1].Employee_Name) = state.emp[1].Employee_Name
        /\ \A k \in 1..Len(employees) :
              /\ ~HasSpace(employees[k].Matricule)
              /\ Strip(employees[k].Employee_Name) = employees[k].Employee_Name

\* C2: a record whose section (from its header row up to its totals row) holds
\* no row the period rule applies to has Period "N/A", whatever came before
\* the header.
C2_NoPeriodGivesNA ==
    Scanning =>
        \A k \in 1..Len(employees) :
            LET t == emitted_at[k]
                h == LastHeader(t)
            IN (h >= 1 /\ \A j \in h..(t - 1) : ~IsPeriod(j)) => employees[k].Period = NA

\* a record with Period "N/A" whose header row was preceded by a period row
C2_Witness ==
    /\ Scanning
    /\ \E k \in 1..Len(employees) :
          LET t == emitted_at[k]
              h == LastHeader(t)
          IN /\ h >= 1 /\ h < t
             /\ \A j \in h..(t - 1) : ~IsPeriod(j)
             /\ \E j \in 1..(h - 1) : IsPeriod(j)
             /\ employees[k].Period = NA

\* C3: scanning a totals row while no EmployeeContext is active (no header
\* since the start of the grid or the last record, that row included) appends
\* no record, leaves the parse state as it was and goes on to the next row.
C3_Step ==
    (/\ Scanning /\ row_idx <= Len(data.rows)
     /\ IsTotal(row_idx) /\ ~IsHeader(row_idx) /\ state.emp = <<>>)
    => (/\ employees' = employees
        /\ state' = state
        /\ row_idx' = row_idx + 1
        /\ pc' = "scan")

C3_OrphanTotalIgnored == [][C3_Step]_vars

\* a totals row with no header before it was passed without a record, and a
\* later section was then parsed into one
C3_Witness ==
    /\ Scanning
    /\ Len(employees) = 1
    /\ \E t \in 1..(emitted_at[1] - 1) : IsTotal(t) /\ \A h \in 1..t : ~IsHeader(h)

\* record k comes from the section opened by header row h and closed by totals
\* row t: no other header row and no record-emitting totals row strictly
\* between them, id and name captured from h, the four metrics read from t
Section(h, t, k) ==
    /\ IsHeader(h)
    /\ IsTotal(t)
    /\ \A j \in (h + 1)..(t - 1) : ~IsHeader(j) /\ j \notin Range(emitted_at)
    /\ employees[k].Matricule = Strip(matricule_match(RowText(h))[1].g1)
    /\ employees[k].Employee_Name = Strip(matricule_match(RowText(h))[1].g2)
    /\ \A key \in MetricKeys :
          Metric(employees[k], key) = extract_numeric(data.rows[t], Get(column_map, key))

\* C4 as stated: every record has a header row strictly before its totals row.
C4_HeaderBeforeTotal ==
    Scanning =>
        \A k \in 1..Len(employees) : \E h \in 1..(emitted_at[k] - 1) : Section(h, emitted_at[k], k)

\* C4 amended: every record has a header row at or before its totals row (one
\* row may match both patterns; the header rule runs first on it).
C4_HeaderAtOrBeforeTotal ==
    Scanning =>
        \A k \in 1..Len(employees) : \E h \in 1..emitted_at[k] : Section(h, emitted_at[k], k)

\* a grid with a record from a section of two rows and one from a single row
\* that is header and totals row at once
C4_Witness ==
    /\ Scanning
    /\ \E k \in 1..Len(employees) : IsHeader(emitted_at[k])
    /\ \E k \in 1..Len(employees) : ~IsHeader(emitted_at[k])

\* C5: the output holds one record for each totals row scanned with an active
\* context, in the order of those rows, and only ever grows by appending.
C5_Inv ==
    Scanning =>
        /\ Len(emitted_at) = Len(employees)
        /\ \A k \in 1..(Len(emitted_at) - 1) : emitted_at[k] < emitted_at[k + 1]
        /\ Range(emitted_at) = {t \in Scanned : IsTotal(t) /\ Active(t)}
        /\ \A k \in 1..Len(employees) : \A key \in MetricKeys :
              Metric(employees[k], key)
                  = extract_numeric(data.rows[emitted_at[k]], Get(column_map, key))

C5_AppendOnly ==
    (Scanning /\ pc' = "scan") =>
        /\ Len(employees') \in {Len(employees), Len(employees) + 1}
        /\ SubSeq(employees', 1, Len(employees)) = employees

C5_OneRecordPerActiveTotal == [](C5_Inv) /\ [][C5_AppendOnly]_vars

\* two records in the output, and a totals row that was passed without one
C5_Witness ==
    /\ Scanning
    /\ Len(employees) >= 2
    /\ \E t \in Scanned : IsTotal(t) /\ t \notin Range(emitted_at)

\* float(cell) succeeds
Coercible(cell) == cell.kind = "num" \/ (cell.kind = "txt" /\ ParseFloat(cell.s) # <<>>)

\* C6: a metric of a record is null when its column index is missing or out of
\* range for the row, when the cell is blank, or when the cell is not a
\* number; otherwise it is the cell's number.  Nothing is raised: every totals
\* row scanned with an active context has its record, bad cells or not.
C6_NumericExtraction ==
    Scanning =>
        /\ \A t \in Scanned : (IsTotal(t) /\ Active(t)) => t \in Range(emitted_at)
        /\ \A k \in 1..Len(employees) : \A key \in MetricKeys :
              LET row == data.rows[emitted_at[k]]
                  idx == Get(column_map, key)
                  null == \/ idx = <<>>
                          \/ idx[1] >= data.width
                          \/ IsNa(row[idx[1] + 1])
                          \/ ~Coercible(row[idx[1] + 1])
              IN IF null THEN Metric(employees[k], key) = <<>>
                 ELSE Metric(employees[k], key) = <<ToFloat(row[idx[1] + 1])[1]>>

\* a record read from a totals row with a blank cell, a non-numeric cell and a
\* numeric text cell, and the scan went on after it
C6_Witness ==
    /\ Scanning
    /\ \E k \in 1..Len(employees) :
          /\ emitted_at[k] < row_idx
          /\ employees[k].Tps_Saisie = <<>>
          /\ employees[k].Tps_Alloue = <<>>
          /\ employees[k].Ecart = <<4000>>
          /\ data.rows[emitted_at[k]][3].kind = "txt"

\* C6 (out of range): a record whose metrics are all null because the column
\* indices lie beyond the row
C6_WitnessOutOfRange ==
    /\ Scanning
    /\ \E k \in 1..Len(employees) :
          /\ \A key \in MetricKeys : Get(column_map, key)[1] >= data.width
          /\ \A key \in MetricKeys : Metric(employees[k], key) = <<>>

\* the record without its Source_File column
Untagged(r) ==
    [Matricule |-> r.Matricule, Employee_Name |-> r.Employee_Name, Period |-> r.Period,
     Tps_Saisie |-> r.Tps_Saisie, Tps_Alloue |-> r.Tps_Alloue, Ecart |-> r.Ecart,
     Efficience_Tech |-> r.Efficience_Tech]

\* number of records the first n files parsed into
RECURSIVE RecordsBefore(_)
RecordsBefore(n) == IF n = 0 THEN 0 ELSE RecordsBefore(n - 1) + Len(parsed[n])

\* the script run is over: the Dataset is built, or an exception ended the run
BatchEnded == pc \in {"done", "raised"}

\* C7: once every uploaded file is processed, the Dataset is as long as the
\* per-file record counts together, ordered by upload order and then by
\* emission order, each row tagged with the name of the file it was parsed from.
C7_DatasetIsConcatenation ==
    pc = "done" =>
        /\ Len(parsed) = Len(uploaded_files)
        /\ Len(combined_df) = RecordsBefore(Len(uploaded_files))
        /\ \A i \in 1..Len(uploaded_files) : \A j \in 1..Len(parsed[i]) :
              LET r == combined_df[RecordsBefore(i - 1) + j]
              IN /\ Untagged(r) = parsed[i][j]
                 /\ r.Source_File = uploaded_files[i].name

\* two files of different names, each parsed into a record, are combined
C7_Witness ==
    /\ pc = "done"
    /\ Len(uploaded_files) = 2
    /\ uploaded_files[1].name # uploaded_files[2].name
    /\ Len(parsed[1]) >= 1 /\ Len(parsed[2]) >= 1
    /\ Len(combined_df) = Len(parsed[1]) + Len(parsed[2])

\* C8: a file that fails to load fails alone: when the run is over, every
\* readable file of the batch has been parsed and its records are in the Dataset.
C8_LoadFailureConfined ==
    BatchEnded =>
        LET readable == {i \in 1..Len(uploaded_files) : uploaded_files[i].ok}
        IN /\ Len(parsed) = Cardinality(readable)
           /\ Len(combined_df) = RecordsBefore(Len(parsed))

\* C9: when the run is over, no staging file written for an uploaded file
\* is left in the temp directory.
C9_StagingReleased == BatchEnded => DOMAIN temp_files = {}

\* the COMPACT column map of the width-based selection
CompactMap == [k \in MetricKeys |->
    IF k = kSaisie THEN 1 ELSE IF k = kAlloue THEN 2 ELSE IF k = kEcart THEN 3 ELSE 4]

\* no row of the grid holds both "Tps Saisie" and "Tps Alloue"
NoLabelRow ==
    \A i \in 1..Len(data.rows) :
        ~(Contains(RowText(i), tTpsSaisie) /\ Contains(RowText(i), tTpsAlloue))

\* C10: with no label header row in the grid, the column map is the compact
\* one for a grid of at most 10 columns and the expanded one otherwise.
C10_WidthSelectsMap ==
    (Scanning /\ NoLabelRow) =>
        column_map = IF data.width <= 10 THEN CompactMap ELSE DefaultMap

\* C11: the column map of every grid maps all four metric names to pairwise
\* distinct column indices within the grid's columns.
C11_MapDistinctAndInBounds ==
    Scanning =>
        /\ DOMAIN column_map = MetricKeys
        /\ \A k1, k2 \in DOMAIN column_map : k1 # k2 => column_map[k1] # column_map[k2]
        /\ \A k \in DOMAIN column_map : column_map[k] >= 0 /\ column_map[k] < data.width

\* C12: parsing is deterministic and keeps nothing from one file to the next:
\* two files of the batch holding the same grid are parsed into the same
\* records, and under the same name into the same tagged frame.
C12_SameGridSameRecords ==
    \A i, j \in 1..Len(parsed) :
        uploaded_files[i].grid = uploaded_files[j].grid =>
            /\ parsed[i] = parsed[j]
            /\ uploaded_files[i].name = uploaded_files[j].name => all_data[i] = all_data[j]

\* the same grid was parsed twice in one run, the second time after a file that
\* left records behind, and gave the same non-empty result
C12_Witness ==
    /\ Len(parsed) = 2
    /\ uploaded_files[1].grid = uploaded_files[2].grid
    /\ uploaded_files[1].name = uploaded_files[2].name
    /\ Len(parsed[1]) >= 1
    /\ parsed[1] = parsed[2]

\* id and name as the header rule captures them from header row h
HeaderId(h) == Strip(matricule_match(RowText(h))[1].g1)

HeaderName(h) == Strip(matricule_match(RowText(h))[1].g2)

\* header row h arrives while an earlier context is still in flight: the row
\* before it left a context active and was no totals row
Replaces(h) == IsHeader(h) /\ h > 1 /\ Active(h - 1) /\ ~IsTotal(h - 1)

\* C13: a header row scanned while a context is in flight replaces that
\* context and emits nothing for it; the record the next totals row emits
\* carries the id and name of the newer header only.
C13_Step ==
    (Scanning /\ row_idx <= Len(data.rows) /\ IsHeader(row_idx) /\ state.emp # <<>>)
    => IF IsTotal(row_idx)
       THEN /\ Len(employees') = Len(employees) + 1
            /\ employees'[Len(employees')].Matricule = HeaderId(row_idx)
            /\ employees'[Len(employees')].Employee_Name = HeaderName(row_idx)
       ELSE /\ employees' = employees
            /\ state'.emp = <<[Matricule |-> HeaderId(row_idx),
                               Employee_Name |-> HeaderName(row_idx)]>>

C13_Inv ==
    Scanning =>
        \A k \in 1..Len(employees) :
            LET h == LastHeader(emitted_at[k])
            IN (h >= 1 /\ Replaces(h)) =>
                  /\ employees[k].Matricule = HeaderId(h)
                  /\ employees[k].Employee_Name = HeaderName(h)
                  /\ \A k2 \in 1..Len(employees) :
                        (emitted_at[k2] >= h /\ emitted_at[k2] <= emitted_at[k]) => k2 = k

C13_HeaderReplacesContext == [](C13_Inv) /\ [][C13_Step]_vars

\* two header rows of different ids in a row, then a totals row: one record,
\* under the second header's id
C13_Witness ==
    /\ Scanning
    /\ Len(employees) = 1
    /\ LET h == LastHeader(emitted_at[1])
       IN /\ h >= 2 /\ h < emitted_at[1]
          /\ Replaces(h)
          /\ IsHeader(h - 1)
          /\ HeaderId(h - 1) # HeaderId(h)
          /\ employees[1].Matricule = HeaderId(h)

\* the row just scanned was a totals row that emitted a record
JustEmitted ==
    Scanning /\ Len(emitted_at) >= 1 /\ emitted_at[Len(emitted_at)] = row_idx - 1

C15_Step ==
    (/\ Scanning /\ row_idx <= Len(data.rows)
     /\ state'.per # HeaderRule(state, RowText(row_idx)).per)
    => (/\ PeriodAt(RowText(row_idx), 1)
        /\ ~Contains(RowText(row_idx), <<"TOTAL">>)
        /\ state'.per = <<SubSeq(RowText(row_idx), 1, 7)>>)

C15_PeriodOnlyFromAnchoredRow == [][C15_Step]_vars

\* C16: the captured EmployeeName ends before a "Periode" marker: neither the
\* context nor any record holds a name with the marker in it.
C16_NameStopsAtPeriode ==
    Scanning =>
        /\ state.emp # <<>> => ~Contains(state.emp[1].Employee_Name, <<"Periode">>)
        /\ \A k \in 1..Len(employees) : ~Contains(employees[k].Employee_Name, <<"Periode">>)

\* the metric a header cell labels: "Ecart" gives Variance, else "Tps Saisie"
\* TimeLogged, else "Alloue" TimeAllocated, else "Efficience" TechnicalEfficiency
CellClass(cell) ==
    IF IsNa(cell) THEN "none"
    ELSE LET t == Strip(Str(cell))
         IN CASE Contains(t, <<"Ecart">>) -> kEcart
              [] ~Contains(t, <<"Ecart">>) /\ Contains(t, tTpsSaisie) -> kSaisie
              [] ~Contains(t, <<"Ecart">>) /\ ~Contains(t, tTpsSaisie)
                 /\ Contains(t, <<"Alloue">>) -> kAlloue
              [] ~Contains(t, <<"Ecart">>) /\ ~Contains(t, tTpsSaisie)
                 /\ ~Contains(t, <<"Alloue">>) /\ Contains(t, <<"Efficience">>) -> kEffic
              [] OTHER -> "none"

\* the metrics row i of the grid supplies a label for
Labelled(i) == {CellClass(data.rows[i][c]) : c \in 1..Len(data.rows[i])} \ {"none"}

\* row i holds both markers and labels at least one metric
Qualifies(i) ==
    /\ Contains(RowText(i), tTpsSaisie)
    /\ Contains(RowText(i), tTpsAlloue)
    /\ Labelled(i) # {}

\* the 0-based column of the last cell of row i labelled key (the column after
\* it for TechnicalEfficiency)
LabelColumn(i, key) ==
    Max({c \in 1..Len(data.rows[i]) : CellClass(data.rows[i][c]) = key}) - 1
    + (IF key = kEffic THEN 1 ELSE 0)

\* C17: with a qualifying header row in the grid the detector returns the map
\* read from the cells of the first such row; it returns the fixed map only
\* when the grid has no such row.
C17_LabelMapPreferred ==
    Scanning =>
        LET Q == {i \in 1..Len(data.rows) : Qualifies(i)}
        IN IF Q # {}
           THEN /\ DOMAIN column_map = Labelled(Min(Q))
                /\ \A key \in Labelled(Min(Q)) : column_map[key] = LabelColumn(Min(Q), key)
           ELSE column_map = DefaultMap

\* a grid whose second row is the full label row: the map is read from it
C17_Witness ==
    /\ Scanning
    /\ Len(data.rows) >= 2
    /\ ~Qualifies(1) /\ Qualifies(2)
    /\ Labelled(2) = MetricKeys
    /\ DOMAIN column_map = MetricKeys
    /\ column_map # DefaultMap
    /\ column_map[kEcart] = 3 /\ column_map[kEffic] = 5

\* C18: the Period of a record is the value of the last row the period rule
\* applies to from the record's header row (included) up to its totals row, or
\* "N/A" when there is none; no period from before the header reaches it.
C18_PeriodFromOwnSection ==
    Scanning =>
        \A k \in 1..Len(employees) :
            LET t == emitted_at[k]
                h == LastHeader(t)
                P == {j \in h..(t - 1) : IsPeriod(j)}
            IN /\ h >= 1
               /\ employees[k].Period =
                      (IF P = {} THEN NA ELSE period_match(RowText(Max(P)))[1])

\* a period row of another value precedes the header; the record carries the
\* period found in its own section
C18_Witness ==
    /\ Scanning
    /\ \E k \in 1..Len(employees) :
          LET t == emitted_at[k]
              h == LastHeader(t)
          IN /\ h >= 2
             /\ \E j \in h..(t - 1) : IsPeriod(j)
             /\ \E j \in 1..(h - 1) :
                   IsPeriod(j) /\ period_match(RowText(j))[1] # employees[k].Period
             /\ employees[k].Period # NA

\* C19: every totals row scanned with an active context emits a record under
\* the id and name of the most recent header row, whichever matricule the
\* totals row names.
C19_RecordUnderHeaderId ==
    Scanning =>
        \A t \in Scanned :
            (IsTotal(t) /\ Active(t)) =>
                \E k \in 1..Len(employees) :
                    /\ emitted_at[k] = t
                    /\ employees[k].Matricule = HeaderId(LastHeader(t))
                    /\ employees[k].Employee_Name = HeaderName(LastHeader(t))

\* a record emitted at a totals row that names another matricule than the header
C19_Witness ==
    /\ Scanning
    /\ \E k \in 1..Len(employees) :
          /\ Strip(total_id(RowText(emitted_at[k]))) # employees[k].Matricule
          /\ employees[k].Matricule = HeaderId(LastHeader(emitted_at[k]))

\* C20: when the first qualifying header row labels only some of the metrics,
\* the map holds those labels and no others, and every record has null in each
\* metric without a label.
C20_MissingLabelsGiveNull ==
    Scanning =>
        LET Q == {i \in 1..Len(data.rows) : Qualifies(i)}
        IN (Q # {} /\ Labelled(Min(Q)) # MetricKeys) =>
              /\ DOMAIN column_map = Labelled(Min(Q))
              /\ \A k \in 1..Len(employees) : \A key \in MetricKeys \ Labelled(Min(Q)) :
                    Metric(employees[k], key) = <<>>

\* a record with null Variance under a partial label row, read from a totals
\* row whose cells all hold values
C20_Witness ==
    /\ Scanning
    /\ DOMAIN column_map = {kSaisie, kAlloue}
    /\ \E k \in 1..Len(employees) :
          /\ employees[k].Ecart = <<>> /\ employees[k].Efficience_Tech = <<>>
          /\ employees[k].Tps_Saisie # <<>>
          /\ data.rows[emitted_at[k]][4].kind = "num"
          /\ data.rows[emitted_at[k]][6].kind = "num"

====
